---------------------------- MODULE Spec2Model ----------------------------
(* A model of craby (crabygen): the Android JNI bootstrap handshake of      *)
(* NativeModuleRegistry and the host package, the metro resolver cache of   *)
(* the basic-module example, the crabygen command line and its generation   *)
(* pipeline, the build orchestrator, the naming converter and runAllTests   *)
(* of the test-suites application.                                          *)
EXTENDS Integers, Sequences, FiniteSets, TLC

(***************************************************************************)
(* Bounds of the model                                                     *)
(***************************************************************************)
\* calls of NativeModuleRegistry.get / getEnforcing per process lifetime
MaxCalls == 3
\* process restarts
MaxRestarts == 1
\* createResolver calls per process
MaxResolvers == 2
\* crabygen processes run one after the other on the project
MaxRuns == 2
\* command-line arguments after the executable and the script
MaxArgs == 3
\* `crabygen build` invocations on the project
MaxBuilds == 1
\* `crabygen clean` invocations on the project
MaxCleans == 2
\* toolchain invocations that run at the same time
MaxJobs == 2
\* characters of the identifiers handed to the naming converter
MaxIdLen == 4
\* getModule calls made on the package directly, per process
MaxHookCalls == 2
\* elements of TEST_SUITES
NumTests == 3
\* presses of the "Run All Tests" button
MaxTestRuns == 2
\* calls of the functions createResolver returned, per process
MaxResolveCalls == 2

(***************************************************************************)
(* Values                                                                  *)
(***************************************************************************)
NULL == "null"
THROW == "throw"
UNSET == "<unset>"
NA == "-"

\* Platform.OS values of react-native
Platforms == {"android", "ios", "web"}
\* module names the JS side asks for
Modules == {"Calculator", "CrabyTest", "Unknown"}
\* the Android package installed in the host application
Packages == {"CrabyTestPackage", "TemplatePackage"}
\* reactContext.filesDir.absolutePath
FilesDirs == {"/data/user/0/com.crabytest/files", "/data/user/10/com.crabytest/files"}

VARIABLES
  OS,          \* Platform.OS
  pkg,         \* the BaseReactPackage of the host application
  filesDir,    \* reactContext.filesDir.absolutePath
  dataPath,    \* the binding layer's data path, set by nativeSetDataPath
  pc,          \* "idle": no JS call running, "js": inside a registry call,
               \* "host": a TurboModuleRegistry lookup is inside the host
  todo,        \* the lookups the running call still has to issue, in order
  log,         \* what happened in this process lifetime, oldest first
  restarts     \* process restarts so far

bootVars == <<OS, pkg, filesDir, dataPath, pc, todo, log, restarts>>

VARIABLES
  created,      \* the options of each createResolver call, in call order;
                \* the function the i-th call returned is named i
  resolvers,    \* the module-level Map `resolvers`: key -> pipeline
  builds,       \* how often createResolverImpl ran, per cache key
  asked,        \* how often a resolve call looked the key up, per cache key
  lastResolve   \* the latest resolve call: its arguments, the pipeline that
                \* served it and what it returned

resVars == <<created, resolvers, builds, asked, lastResolve>>

VARIABLES
  argv,         \* process.argv of the running crabygen process
  parserArgv,   \* the argument vector run() handed to cli.parse
  overwrite,    \* the arguments runCodegen was called with in this process:
                \* {} before the call, {TRUE} or {FALSE} after it
  thrown,       \* what the codegen action threw, NoThrow if it returned
  errors,       \* the messages emitted through error(), oldest first
  exitCode,     \* the code process.exit was called with, NoExit if it was not
  cliPc,        \* "shell": no process, "run": run() entered, "parse":
                \* cli.parse entered, "codegen": the codegen action is due,
                \* "returned" / "other" / "exited": how the process ended
  moduleSpec,   \* the module specification of the project
  files,        \* the generated-output files of the project: path -> content
  filesBefore,  \* files when the running process started
  runs,         \* crabygen processes started so far
  gens          \* the codegen runs that returned, oldest first: whether the
                \* command line left overwriting enabled, the module
                \* specification, the files found and the files left

cliVars == <<argv, parserArgv, overwrite, thrown, errors, exitCode, cliPc,
             moduleSpec, files, filesBefore, runs, gens>>

VARIABLES
  buildPc,      \* "shell": no build runs, "building": `crabygen build` runs
  requested,    \* the platform families the running build was asked for
  triple,       \* per target triple, its compilation in the running build:
                \* "idle", "queued", "compiling", "stopping" (cancelled while
                \* compiling), "done", "failed", "cancelled"
  compiled,     \* per target triple, the toolchain invocations of this build
  failures,     \* the triples whose compilation failed, in the order they failed
  buildError,   \* the error the build surfaces, NoError if none
  assembling,   \* the families whose bundle is being assembled
  packaged,     \* the families whose packaging step has ended in this build
  disk,         \* the build outputs on disk: target: the directory of
                \* intermediates exists, bundle: per family, the
                \* architectures of its bundle ({} if there is no bundle)
  buildExit,    \* the exit code of the latest build or clean, NoExit if none
  buildRuns,    \* builds started so far
  cleans,       \* clean operations run so far
  prevOp,       \* the outcome of the command before the latest one
  lastOp        \* the outcome of the latest command: "none", "build-ok",
                \* "build-failed" or "clean"

buildVars == <<buildPc, requested, triple, compiled, failures, buildError,
               assembling, packaged, disk, buildExit, buildRuns, cleans, prevOp,
               lastOp>>

VARIABLES
  identifier,   \* the method or field identifier handed to the naming converter
  snake,        \* what toSnake returned for it, NA before the conversion
  namePc        \* "given": not converted yet, "converted"

nameVars == <<identifier, snake, namePc>>

VARIABLES
  isRunning,    \* the state isRunning of the App component
  testResults,  \* the state testResults of the App component
  results,      \* the local array `results` of the running runAllTests
  testPc,       \* 0: runAllTests does not run; k: it awaits the action of
                \* the k-th element of TEST_SUITES
  executed,     \* the test actions of this run that settled, oldest first:
                \* the index of the test and how its action settled
  published,    \* setTestResults(results) calls of this run
  testRuns,     \* runAllTests calls so far
  disabled,     \* the prop `disabled` of the run button as last rendered
  inProgress    \* runAllTests calls that have started and not yet returned

testVars == <<isRunning, testResults, results, testPc, executed, published,
              testRuns, disabled, inProgress>>

VARIABLES
  packageJsons, \* the file system getWorkspaceRoot reads: for the package.json
                \* path of each directory, what the file holds
  configRoot,   \* the argument rootDir of getConfig, NA before the call
  rootDir,      \* the variable rootDir of getWorkspaceRoot
  wsPc,         \* "idle", "loop": at the loop condition, "returned", "threw"
  watchFolders  \* watchFolders of the object getConfig returned, NA before

wsVars == <<packageJsons, configRoot, rootDir, wsPc, watchFolders>>

vars == <<bootVars, resVars, cliVars, buildVars, nameVars, testVars, wsVars>>

\* the state each part of the program leaves alone
notBoot == <<resVars, cliVars, buildVars, nameVars, testVars, wsVars>>
notRes == <<bootVars, cliVars, buildVars, nameVars, testVars, wsVars>>
notCli == <<bootVars, resVars, buildVars, nameVars, testVars, wsVars>>
notBuild == <<bootVars, resVars, cliVars, nameVars, testVars, wsVars>>
notName == <<bootVars, resVars, cliVars, buildVars, testVars, wsVars>>
notTest == <<bootVars, resVars, cliVars, buildVars, nameVars, wsVars>>
notWs == <<bootVars, resVars, cliVars, buildVars, nameVars, testVars>>

(***************************************************************************)
(* JS side: NativeModuleRegistry                                           *)
(***************************************************************************)
Lookup(api, name) == [api |-> api, name |-> name]

\* a registry deriving the synthetic name with another separator
JNIPrepareName_Underscore(moduleName) == "__craby_" \o moduleName \o "_JNI_prepare__"

\* the synthetic module name of the template literal in prepareJNI
JNIPrepareName(moduleName) == "__craby" \o moduleName \o "_JNI_prepare__"

\* a prepareJNI without the platform guard
prepareJNI_NoPlatformGuard(moduleName) ==
  << Lookup("get", JNIPrepareName(moduleName)) >>

\* prepareJNI: the TurboModuleRegistry lookups it issues, in order
prepareJNI(moduleName) ==
  IF OS # "android"
    THEN <<>>
    ELSE << Lookup("get", JNIPrepareName(moduleName)) >>

\* a get that prepares after the real lookup
NativeModuleRegistry_get_RealFirst(moduleName) ==
  << Lookup("get", moduleName) >> \o prepareJNI(moduleName)

\* NativeModuleRegistry.get: prepareJNI(moduleName); return TurboModuleRegistry.get(moduleName)
NativeModuleRegistry_get(moduleName) ==
  prepareJNI(moduleName) \o << Lookup("get", moduleName) >>

\* a getEnforcing that prepares twice
NativeModuleRegistry_getEnforcing_PrepareTwice(moduleName) ==
  prepareJNI(moduleName) \o prepareJNI(moduleName)
    \o << Lookup("getEnforcing", moduleName) >>

\* NativeModuleRegistry.getEnforcing
NativeModuleRegistry_getEnforcing(moduleName) ==
  prepareJNI(moduleName) \o << Lookup("getEnforcing", moduleName) >>

(***************************************************************************)
(* Host side: the Android packages                                         *)
(***************************************************************************)
\* CrabyTestPackage.JNI_PREPARE_MODULE_NAME
CrabyTest_JNI_PREPARE_MODULE_NAME ==
  {"__crabyCalculator_JNI_prepare__", "__crabyCrabyTest_JNI_prepare__"}

\* {{ pascal_name }}Package.JNI_PREPARE_MODULE_NAME
Template_JNI_PREPARE_MODULE_NAME == "__crabyUnknown_JNI_prepare__"

\* the keys of the map built by getReactModuleInfoProvider
ReactModuleInfos(p) ==
  IF p = "CrabyTestPackage"
    THEN CrabyTest_JNI_PREPARE_MODULE_NAME
    ELSE {Template_JNI_PREPARE_MODULE_NAME}

\* a getModule whose membership test is inverted
CrabyTestPackage_getModule_Inverted(name, ctxFilesDir, curPath) ==
  [ret  |-> NULL,
   path |-> IF name \notin CrabyTest_JNI_PREPARE_MODULE_NAME THEN ctxFilesDir ELSE curPath]

\* CrabyTestPackage.getModule: the returned module and the data path afterwards
CrabyTestPackage_getModule(name, ctxFilesDir, curPath) ==
  [ret  |-> NULL,
   path |-> IF name \in CrabyTest_JNI_PREPARE_MODULE_NAME THEN ctxFilesDir ELSE curPath]

\* a template getModule with the membership test of CrabyTestPackage
TemplatePackage_getModule_Guarded(name, ctxFilesDir, curPath) ==
  [ret  |-> NULL,
   path |-> IF name = Template_JNI_PREPARE_MODULE_NAME THEN ctxFilesDir ELSE curPath]

\* {{ pascal_name }}Package.getModule
TemplatePackage_getModule(name, ctxFilesDir, curPath) ==
  [ret |-> NULL, path |-> ctxFilesDir]

getModule(p, name, ctxFilesDir, curPath) ==
  IF p = "CrabyTestPackage"
    THEN CrabyTestPackage_getModule(name, ctxFilesDir, curPath)
    ELSE TemplatePackage_getModule(name, ctxFilesDir, curPath)

\* the C++ TurboModules the application of package p links in
CxxModules(p) ==
  IF p = "CrabyTestPackage" THEN {"Calculator", "CrabyTest"} ELSE {"Unknown"}

\* the module object the host hands to JS for a C++ module
ModuleObject(name) == "module:" \o name

\* resolution of a C++ module: on Android it needs the data path
ResolveCxxModule(name, curPath) ==
  IF name \in CxxModules(pkg) /\ (OS = "android" => curPath # UNSET)
    THEN ModuleObject(name)
    ELSE NULL

\* the host calls the package's getModule for the names the package registered
HostCallsGetModule(name) == OS = "android" /\ name \in ReactModuleInfos(pkg)

(***************************************************************************)
(* The log of a process lifetime                                           *)
(***************************************************************************)
Event(ev, api, name, path, val) ==
  [ev |-> ev, api |-> api, name |-> name, path |-> path, val |-> val]

CallsIn(l) == Cardinality({i \in 1..Len(l) : l[i].ev = "call"})

\* index of the "call" event that the event at index i belongs to
CallOf(l, i) ==
  CHOOSE c \in 1..i : l[c].ev = "call" /\ \A k \in (c+1)..i : l[k].ev # "call"

(***************************************************************************)
(* Actions of the bootstrap model                                          *)
(***************************************************************************)
BootInit ==
  /\ OS \in Platforms
  /\ pkg \in Packages
  /\ filesDir \in FilesDirs
  /\ dataPath = UNSET
  /\ pc = "idle"
  /\ todo = <<>>
  /\ log = <<>>
  /\ restarts = 0

\* JS calls NativeModuleRegistry.get(M) or NativeModuleRegistry.getEnforcing(M)
Call(api, M) ==
  /\ pc = "idle"
  /\ CallsIn(log) < MaxCalls
  /\ todo' = IF api = "get" THEN NativeModuleRegistry_get(M)
                            ELSE NativeModuleRegistry_getEnforcing(M)
  /\ log' = Append(log, Event("call", api, M, dataPath, NA))
  /\ pc' = "js"
  /\ UNCHANGED <<OS, pkg, filesDir, dataPath, restarts>>
  /\ UNCHANGED notBoot

\* the running call issues its next TurboModuleRegistry lookup
IssueLookup ==
  /\ pc = "js"
  /\ todo # <<>>
  /\ log' = Append(log, Event("issue", Head(todo).api, Head(todo).name, dataPath, NA))
  /\ pc' = "host"
  /\ UNCHANGED <<OS, pkg, filesDir, dataPath, todo, restarts>>
  /\ UNCHANGED notBoot

\* the host serves the lookup: the package hook for a registered name, then
\* the C++ module of that name if there is one; the lookup returns to JS
HostLookup ==
  /\ pc = "host"
  /\ LET l    == Head(todo)
         hook == HostCallsGetModule(l.name)
         got  == getModule(pkg, l.name, filesDir, dataPath)
         path == IF hook THEN got.path ELSE dataPath
         java == IF hook THEN got.ret ELSE NULL
         mod  == IF java # NULL THEN java ELSE ResolveCxxModule(l.name, path)
         val  == IF mod = NULL /\ l.api = "getEnforcing" THEN THROW ELSE mod
         hookEv == IF hook THEN << Event("getModule", NA, l.name, path, got.ret) >>
                           ELSE <<>>
     IN /\ dataPath' = path
        /\ log' = log \o hookEv \o << Event("return", l.api, l.name, path, val) >>
        /\ todo' = IF val = THROW THEN <<>> ELSE Tail(todo)
  /\ pc' = "js"
  /\ UNCHANGED <<OS, pkg, filesDir, restarts>>
  /\ UNCHANGED notBoot

\* the call returns to its caller what its last lookup returned
CallReturn ==
  /\ pc = "js"
  /\ todo = <<>>
  /\ log' = Append(log, Event("result", NA, NA, dataPath, log[Len(log)].val))
  /\ pc' = "idle"
  /\ UNCHANGED <<OS, pkg, filesDir, dataPath, todo, restarts>>
  /\ UNCHANGED notBoot

\* the process is killed and started again: the binding layer starts unset
ProcessRestart ==
  /\ restarts < MaxRestarts
  /\ log # <<>>
  /\ restarts' = restarts + 1
  /\ dataPath' = UNSET
  /\ pc' = "idle"
  /\ todo' = <<>>
  /\ log' = <<>>
  /\ UNCHANGED <<OS, pkg, filesDir>>
  /\ UNCHANGED notBoot

\* the names getModule is asked for when it is called directly
HookNames ==
  Modules \cup CrabyTest_JNI_PREPARE_MODULE_NAME
          \cup {Template_JNI_PREPARE_MODULE_NAME, ""}

\* a caller asks the package for a module by name: getModule(name, reactContext)
GetModule(name) ==
  /\ pc = "idle"
  /\ Len(log) < 2 * MaxHookCalls
  /\ LET got == getModule(pkg, name, filesDir, dataPath)
     IN /\ dataPath' = got.path
        /\ log' = log \o << Event("ask", NA, name, dataPath, NA),
                             Event("getModule", NA, name, got.path, got.ret) >>
  /\ UNCHANGED <<OS, pkg, filesDir, pc, todo, restarts>>
  /\ UNCHANGED notBoot

HookNext == \E name \in HookNames : GetModule(name)

BootNext ==
  \/ \E api \in {"get", "getEnforcing"}, M \in Modules : Call(api, M)
  \/ IssueLookup
  \/ HostLookup
  \/ CallReturn
  \/ ProcessRestart

\* no registry call is made: the state the other models keep this one in
BootQuiet ==
  /\ OS = "ios"
  /\ pkg = "CrabyTestPackage"
  /\ filesDir = "/data/user/0/com.crabytest/files"
  /\ dataPath = UNSET
  /\ pc = "idle"
  /\ todo = <<>>
  /\ log = <<>>
  /\ restarts = 0

(***************************************************************************)
(* The metro resolver of the basic-module example                          *)
(***************************************************************************)
\* DEFAULT_SINGLETON_MODULES
DEFAULT_SINGLETON_MODULES == <<"react", "react-native">>

UNDEFINED == "undefined"
NoResolver == [owner |-> 0]

\* CreateResolverOptions drawn for createResolver
ResolverOptions ==
  {[rootPath |-> "/app", singletonModules |-> UNDEFINED],
   [rootPath |-> "/repo/lib", singletonModules |-> <<"./util">>]}

\* the platform argument of a resolve call, the key of the cache
PlatformKeys == {NULL, "ios", "android"}
\* CustomResolutionContext drawn for a resolve call
Contexts ==
  {[sourceExts |-> <<"js">>, originModulePath |-> "/app/src/index.ts",
    preferNativePlatform |-> FALSE],
   [sourceExts |-> <<"ts", "tsx">>, originModulePath |-> "/repo/lib/a/b.ts",
    preferNativePlatform |-> TRUE]}
Requests == {"react", "./util"}

\* index of the last "/" of p, 0 if none
RECURSIVE LastSlash(_, _)
LastSlash(p, i) ==
  IF i = 0 THEN 0
  ELSE IF SubSeq(p, i, i) = "/" THEN i ELSE LastSlash(p, i - 1)

\* path.dirname of a path without a trailing separator
Dirname(p) ==
  LET i == LastSlash(p, Len(p))
  IN IF i = 0 THEN "." ELSE IF i = 1 THEN "/" ELSE SubSeq(p, 1, i - 1)

\* path.join(a, b) of two normalized, non-empty paths
PathJoin(a, b) == a \o "/" \o b

\* array.map((extension) => prefix + extension)
MapPrefix(prefix, exts) == [i \in 1..Len(exts) |-> prefix \o exts[i]]

\* createResolverImpl up to the ResolverFactory: the extension list
FinalExtensions(context, platform) ==
  LET baseExtensions == MapPrefix(".", context.sourceExts)
      withNative == IF context.preferNativePlatform
                      THEN MapPrefix(".native", baseExtensions) \o baseExtensions
                      ELSE baseExtensions
  IN IF platform # NULL /\ platform # ""
       THEN MapPrefix("." \o platform, baseExtensions) \o withNative
       ELSE withNative

\* createResolverImpl: the pipeline (closure) built for the function `fn`
\* that createResolver(options) returned
createResolverImpl(fn, options, context, platform, rootPath) ==
  [owner            |-> fn,
   singletonModules |-> IF options.singletonModules = UNDEFINED
                          THEN DEFAULT_SINGLETON_MODULES
                          ELSE options.singletonModules,
   extensions       |-> FinalExtensions(context, platform),
   modules          |-> <<"node_modules", PathJoin(rootPath, "src")>>,
   rootPath         |-> rootPath,
   origin           |-> context.originModulePath]

\* the inner resolve(context, request) of a pipeline: the directory it
\* resolves from
ResolveDir(pipeline, context, request) ==
  IF \E i \in 1..Len(pipeline.singletonModules) :
        request = pipeline.singletonModules[i]
    THEN pipeline.rootPath
    ELSE Dirname(context.originModulePath)

\* resolveSync: what resolver.sync is asked, and the Error thrown when it
\* finds no path
ResolveSync(pipeline, resolveDir, request) ==
  [resolveDir |-> resolveDir,
   request    |-> request,
   extensions |-> pipeline.extensions,
   modules    |-> pipeline.modules,
   error      |-> "Failed to resolve " \o request \o " from " \o pipeline.origin]

\* a resolver that rebuilds the pipeline on every call
CacheLookup_AlwaysMiss(platform) == NoResolver

\* resolvers.get(platform)
CacheLookup(platform) == resolvers[platform]

ResInit ==
  /\ created = <<>>
  /\ resolvers = [k \in PlatformKeys |-> NoResolver]
  /\ builds = [k \in PlatformKeys |-> 0]
  /\ asked = [k \in PlatformKeys |-> 0]
  /\ lastResolve = [fn |-> 0]

\* createResolver(options): returns a new resolve function
CreateResolver(options) ==
  /\ Len(created) < MaxResolvers
  /\ created' = Append(created, options)
  /\ UNCHANGED <<resolvers, builds, asked, lastResolve>>
  /\ UNCHANGED notRes

\* the function that the fn-th createResolver call returned is called
Resolve(fn, context, request, platform) ==
  /\ fn \in 1..Len(created)
  /\ asked[NULL] + asked["ios"] + asked["android"] < MaxResolveCalls
  /\ LET cached == CacheLookup(platform)
         miss == cached = NoResolver
         resolver == IF miss
                       THEN createResolverImpl(fn, created[fn], context, platform,
                                               created[fn].rootPath)
                       ELSE cached
     IN /\ resolvers' = IF miss THEN [resolvers EXCEPT ![platform] = resolver]
                                ELSE resolvers
        /\ builds' = IF miss THEN [builds EXCEPT ![platform] = @ + 1] ELSE builds
        /\ lastResolve' =
             [fn |-> fn, context |-> context, request |-> request,
              platform |-> platform, servedBy |-> resolver,
              result |-> ResolveSync(resolver,
                                     ResolveDir(resolver, context, request),
                                     request)]
  /\ asked' = [asked EXCEPT ![platform] = @ + 1]
  /\ UNCHANGED created
  /\ UNCHANGED notRes

ResNext ==
  \/ \E options \in ResolverOptions : CreateResolver(options)
  \/ \E fn \in 1..MaxResolvers, context \in Contexts, request \in Requests,
        platform \in PlatformKeys :
       Resolve(fn, context, request, platform)

(***************************************************************************)
(* The crabygen command line                                               *)
(***************************************************************************)
NoThrow == [isError |-> FALSE, message |-> "<no throw>", none |-> TRUE]
NoExit == -1
ABSENT == "<absent>"

\* what an action may throw: an Error with a message, or any other value
Reasons ==
  {[isError |-> TRUE, message |-> "SpecError: no module handle", none |-> FALSE],
   [isError |-> TRUE, message |-> "UnsupportedTypeError: string | number",
    none |-> FALSE],
   [isError |-> TRUE, message |-> "", none |-> FALSE],
   [isError |-> FALSE, message |-> "a thrown string", none |-> FALSE]}

\* the words of the command lines tried
ArgWords == {"--no-overwrite", "-v", "codegen", "build", ""}

RECURSIVE SeqsUpTo(_, _)
SeqsUpTo(S, n) ==
  IF n = 0 THEN {<<>>}
  ELSE LET shorter == SeqsUpTo(S, n - 1)
       IN shorter \cup {Append(q, w) : q \in shorter, w \in S}

\* the command lines the processes of the project are started with
CommandLines ==
  {<<>>, <<"--no-overwrite">>, <<"-v">>, <<"codegen">>,
   <<"codegen", "--no-overwrite">>, <<"build">>, <<"--no-overwrite", "codegen">>}

\* option.startsWith('-')
StartsWithDash(option) == Len(option) >= 1 /\ SubSeq(option, 1, 1) = "-"

\* an isCodegenCommand that asks for some option instead of every option
isCodegenCommand_Some(a) ==
  \E i \in 3..Len(a) : StartsWithDash(a[i])

\* isCodegenCommand: argv.slice(2).every((option) => option.startsWith('-'))
isCodegenCommand(a) ==
  \A i \in 3..Len(a) : StartsWithDash(a[i])

\* the argument of cli.parse in run()
ParserArgv(a) ==
  IF isCodegenCommand(a)
    THEN <<a[1], a[2], "codegen">> \o SubSeq(a, 3, Len(a))
    ELSE a

\* the commands run() adds to the program
Commands == {"codegen", "init", "build", "show", "doctor", "clean"}

\* commander: the subcommand an argument vector names, "" for none
CommandOf(pa) ==
  IF Len(pa) >= 3 /\ pa[3] \in Commands THEN pa[3] ELSE ""

\* an option declared as '--overwrite': absent, so falsy, unless it is given
OverwriteOption_DefaultFalse(pa) ==
  \E i \in 4..Len(pa) : pa[i] = "--overwrite"

\* a codegen command whose flag turns overwriting on
OverwriteOption_Inverted(pa) ==
  \E i \in 4..Len(pa) : pa[i] = "--no-overwrite"

\* commander: options.overwrite of .option('--no-overwrite'), true by default
OverwriteOption(pa) ==
  ~ \E i \in 4..Len(pa) : pa[i] = "--no-overwrite"

\* a handler that reports the error and lets the process go on
commonErrorHandler_NoExit(reason) ==
  [errors |-> << IF reason.isError THEN reason.message ELSE "Unknown error" >>,
   exit   |-> NoExit]

\* commonErrorHandler: the messages passed to error() and the exit code
commonErrorHandler(reason) ==
  [errors |-> << IF reason.isError THEN reason.message ELSE "Unknown error" >>,
   exit   |-> 1]

\* a wrapper that swallows what the action throws
withErrorHandler_Swallow(reason) ==
  [errors |-> <<>>, exit |-> NoExit]

\* withErrorHandler: try { action(arg) } catch (reason) { commonErrorHandler(reason) }
withErrorHandler(reason) ==
  IF reason = NoThrow
    THEN [errors |-> <<>>, exit |-> NoExit]
    ELSE commonErrorHandler(reason)

\* the command line of a process leaves overwriting enabled
OverwriteEnabled(a) == ~ \E i \in 3..Len(a) : a[i] = "--no-overwrite"

\* the output files of the project
OutputPaths == {"crates/lib/src/generated.rs", "crates/lib/src/calculator_impl.rs"}
ModuleSpecs == {"spec-1", "spec-2"}
EDITED == "edited by the developer"

\* the text the pipeline renders for a path from the module specification
Generated(ms, path) == "generated from " \o ms \o " for " \o path

\* the generation pipeline codegen({ projectRoot, overwrite }) on the files
codegen(fs, ms, ow) ==
  [path \in OutputPaths |->
     IF fs[path] # ABSENT /\ ~ow THEN fs[path] ELSE Generated(ms, path)]

\* one generation run: parsing, type mapping and naming come before emission,
\* so a run that fails in one of them throws `reason` before it has written
\* anything
codegenRun(fs, ms, ow, reason) ==
  IF reason = NoThrow THEN codegen(fs, ms, ow) ELSE fs

CliInit ==
  /\ argv = <<>>
  /\ parserArgv = <<>>
  /\ overwrite = {}
  /\ thrown = NoThrow
  /\ errors = <<>>
  /\ exitCode = NoExit
  /\ cliPc = "shell"
  /\ moduleSpec \in ModuleSpecs
  /\ files \in [OutputPaths -> {ABSENT, EDITED}]
  /\ filesBefore = files
  /\ runs = 0
  /\ gens = <<>>

\* the developer starts `crabygen <args>`
StartProcess(args) ==
  /\ cliPc = "shell"
  /\ runs < MaxRuns
  /\ runs' = runs + 1
  /\ argv' = <<"node", "crabygen">> \o args
  /\ parserArgv' = <<>>
  /\ overwrite' = {}
  /\ thrown' = NoThrow
  /\ errors' = <<>>
  /\ exitCode' = NoExit
  /\ filesBefore' = files
  /\ cliPc' = "run"
  /\ UNCHANGED <<moduleSpec, files, gens>>
  /\ UNCHANGED notCli

\* run(): the commands are added and cli.parse is called
CliRun ==
  /\ cliPc = "run"
  /\ parserArgv' = ParserArgv(argv)
  /\ cliPc' = "parse"
  /\ UNCHANGED <<argv, overwrite, thrown, errors, exitCode, moduleSpec, files,
                 filesBefore, runs, gens>>
  /\ UNCHANGED notCli

\* cli.parse dispatches: the codegen action, another command, or commander's
\* own error for an argument vector that names no command
CliParse ==
  /\ cliPc = "parse"
  /\ LET cmd == CommandOf(parserArgv)
     IN /\ cliPc' = IF cmd = "codegen" THEN "codegen"
                    ELSE IF cmd = "" THEN "exited" ELSE "other"
        /\ overwrite' = IF cmd = "codegen" THEN {OverwriteOption(parserArgv)} ELSE {}
        /\ exitCode' = IF cmd = "" THEN 1 ELSE exitCode
  /\ UNCHANGED <<argv, parserArgv, thrown, errors, moduleSpec, files,
                 filesBefore, runs, gens>>
  /\ UNCHANGED notCli

\* runCodegen(options.overwrite): the pipeline runs inside withErrorHandler;
\* it returns, or it throws `reason`
RunCodegen(reason) ==
  /\ cliPc = "codegen"
  /\ thrown' = reason
  /\ files' = codegenRun(files, moduleSpec, CHOOSE ow \in overwrite : TRUE,
                         reason)
  /\ gens' = IF reason = NoThrow
               THEN Append(gens, [enabled |-> OverwriteEnabled(argv),
                                  moduleSpec |-> moduleSpec,
                                  before |-> files, files |-> files'])
               ELSE gens
  /\ errors' = errors \o withErrorHandler(reason).errors
  /\ exitCode' = withErrorHandler(reason).exit
  /\ cliPc' = IF withErrorHandler(reason).exit = NoExit THEN "returned" ELSE "exited"
  /\ UNCHANGED <<argv, parserArgv, overwrite, moduleSpec, filesBefore, runs>>
  /\ UNCHANGED notCli

\* the process is gone; the files stay
ProcessEnd ==
  /\ cliPc \in {"returned", "other", "exited"}
  /\ cliPc' = "shell"
  /\ UNCHANGED <<argv, parserArgv, overwrite, thrown, errors, exitCode,
                 moduleSpec, files, filesBefore, runs, gens>>
  /\ UNCHANGED notCli

\* between two runs the developer edits an output file that exists
DeveloperEdit(path) ==
  /\ cliPc = "shell"
  /\ files[path] \notin {ABSENT, EDITED}
  /\ files' = [files EXCEPT ![path] = EDITED]
  /\ UNCHANGED <<argv, parserArgv, overwrite, thrown, errors, exitCode, cliPc,
                 moduleSpec, filesBefore, runs, gens>>
  /\ UNCHANGED notCli

\* between two runs the developer changes the module specification
EditModuleSpec(ms) ==
  /\ cliPc = "shell"
  /\ runs >= 1
  /\ ms # moduleSpec
  /\ moduleSpec' = ms
  /\ UNCHANGED <<argv, parserArgv, overwrite, thrown, errors, exitCode, cliPc,
                 files, filesBefore, runs, gens>>
  /\ UNCHANGED notCli

CliNext ==
  \/ \E args \in CommandLines : StartProcess(args)
  \/ CliRun
  \/ CliParse
  \/ \E reason \in Reasons \cup {NoThrow} : RunCodegen(reason)
  \/ ProcessEnd
  \/ \E path \in OutputPaths : DeveloperEdit(path)
  \/ \E ms \in ModuleSpecs : EditModuleSpec(ms)

\* no crabygen process runs: the state the other models keep this one in
CliQuiet ==
  /\ argv = <<>>
  /\ parserArgv = <<>>
  /\ overwrite = {}
  /\ thrown = NoThrow
  /\ errors = <<>>
  /\ exitCode = NoExit
  /\ cliPc = "shell"
  /\ moduleSpec = "spec-1"
  /\ files = [path \in OutputPaths |-> ABSENT]
  /\ filesBefore = files
  /\ runs = 0
  /\ gens = <<>>

(***************************************************************************)
(* The build orchestrator: crabygen build and crabygen clean               *)
(***************************************************************************)
Families == {"ios", "android"}

\* the cross-compilation targets
AllTriples ==
  {"aarch64-apple-ios", "aarch64-apple-ios-sim", "aarch64-linux-android",
   "armv7-linux-androideabi", "i686-linux-android", "x86_64-linux-android"}

\* the target triples of each platform family
IosTriples == {"aarch64-apple-ios", "aarch64-apple-ios-sim"}

\* an Android family that has lost a triple
AndroidTriples_NoX86_64 ==
  {"aarch64-linux-android", "armv7-linux-androideabi", "i686-linux-android"}

AndroidTriples ==
  {"aarch64-linux-android", "armv7-linux-androideabi", "i686-linux-android",
   "x86_64-linux-android"}

Triples(f) == IF f = "ios" THEN IosTriples ELSE AndroidTriples

\* the directory of the bundle a triple's binary is copied to
BundleSlice(t) ==
  CASE t = "aarch64-apple-ios"       -> "ios-arm64"
    [] t = "aarch64-apple-ios-sim"   -> "ios-arm64-simulator"
    [] t = "aarch64-linux-android"   -> "arm64-v8a"
    [] t = "armv7-linux-androideabi" -> "armeabi-v7a"
    [] t = "i686-linux-android"      -> "x86"
    [] t = "x86_64-linux-android"    -> "x86_64"

\* the layout of a family's bundle: ios/framework/libmodule.xcframework and
\* android/src/main/libs
BundleLayout(f) ==
  IF f = "ios" THEN {"ios-arm64", "ios-arm64-simulator"}
  ELSE {"arm64-v8a", "armeabi-v7a", "x86", "x86_64"}

\* the triple whose binary a directory of a bundle holds
TripleOfSlice(slice) == CHOOSE t \in AllTriples : BundleSlice(t) = slice

NoError == [kind |-> "none", triple |-> NA]
CompilationError(t) == [kind |-> "CompilationError", triple |-> t]

NoDisk == [target |-> FALSE, bundle |-> [f \in Families |-> {}]]

\* the compilations of a build after the compilation of t failed, when
\* nothing is cancelled
OnFailure_NoCancel(tr, t) ==
  [tr EXCEPT ![t] = "failed"]

\* the compilations of a build after the compilation of t failed: the
\* remaining triples of the invocation are cancelled, t is not tried again
OnFailure(tr, t) ==
  [u \in DOMAIN tr |->
     IF u = t THEN "failed"
     ELSE IF tr[u] = "queued" THEN "cancelled"
     ELSE IF tr[u] = "compiling" THEN "stopping"
     ELSE tr[u]]

\* the error a build surfaces after a failure `err`: the first one stays
Surface(cur, err) == IF cur = NoError THEN err ELSE cur

\* a packaging step that starts as soon as one triple of the family is done
JoinBarrier_Any(tr, f) == \E t \in Triples(f) : tr[t] = "done"

\* the join barrier: every triple of the family has finished successfully
JoinBarrier(tr, f) == \A t \in Triples(f) : tr[t] = "done"

\* a clean that leaves the intermediates
CleanRemoves_BundlesOnly == {"android", "ios"}

\* what clean removes: target/, the generated binaries in android/ and ios/
CleanRemoves == {"target", "android", "ios"}

\* the exit code of removing `roots`: a missing path is not an error
RemoveExit(d, roots) == 0

\* the disk after the removal of `roots`
Removed(d, roots) ==
  [target |-> d.target /\ "target" \notin roots,
   bundle |-> [f \in Families |-> IF f \in roots THEN {} ELSE d.bundle[f]]]

BuildInit ==
  /\ buildPc = "shell"
  /\ requested = {}
  /\ triple = [t \in AllTriples |-> "idle"]
  /\ compiled = [t \in AllTriples |-> 0]
  /\ failures = <<>>
  /\ buildError = NoError
  /\ assembling = {}
  /\ packaged = {}
  /\ disk = NoDisk
  /\ buildExit = NoExit
  /\ buildRuns = 0
  /\ cleans = 0
  /\ prevOp = "none"
  /\ lastOp = "none"

\* `crabygen build` for the families `fams`: one compilation per triple is
\* queued
StartBuild(fams) ==
  /\ buildPc = "shell"
  /\ buildRuns < MaxBuilds
  /\ buildRuns' = buildRuns + 1
  /\ buildPc' = "building"
  /\ requested' = fams
  /\ triple' = [t \in AllTriples |->
                  IF \E f \in fams : t \in Triples(f) THEN "queued" ELSE "idle"]
  /\ compiled' = [t \in AllTriples |-> 0]
  /\ failures' = <<>>
  /\ buildError' = NoError
  /\ assembling' = {}
  /\ packaged' = {}
  /\ buildExit' = NoExit
  /\ UNCHANGED <<disk, cleans, prevOp, lastOp>>
  /\ UNCHANGED notBuild

\* the toolchain is invoked for a queued triple, when an invocation is free
CompileStart(t) ==
  /\ buildPc = "building"
  /\ triple[t] = "queued"
  /\ Cardinality({u \in AllTriples : triple[u] \in {"compiling", "stopping"}})
       < MaxJobs
  /\ triple' = [triple EXCEPT ![t] = "compiling"]
  /\ compiled' = [compiled EXCEPT ![t] = @ + 1]
  /\ disk' = [disk EXCEPT !.target = TRUE]
  /\ UNCHANGED <<buildPc, requested, failures, buildError, assembling,
                 packaged, buildExit, buildRuns, cleans, prevOp, lastOp>>
  /\ UNCHANGED notBuild

\* the compilation of a triple ends successfully
CompileDone(t) ==
  /\ buildPc = "building"
  /\ triple[t] = "compiling"
  /\ triple' = [triple EXCEPT ![t] = "done"]
  /\ UNCHANGED <<buildPc, requested, compiled, failures, buildError,
                 assembling, packaged, disk, buildExit, buildRuns, cleans, prevOp,
                 lastOp>>
  /\ UNCHANGED notBuild

\* the compilation of a triple fails: the error is surfaced and the
\* remaining compilations are cancelled
CompileFail(t) ==
  /\ buildPc = "building"
  /\ triple[t] = "compiling"
  /\ triple' = OnFailure(triple, t)
  /\ failures' = Append(failures, t)
  /\ buildError' = Surface(buildError, CompilationError(t))
  /\ UNCHANGED <<buildPc, requested, compiled, assembling, packaged, disk,
                 buildExit, buildRuns, cleans, prevOp, lastOp>>
  /\ UNCHANGED notBuild

\* a compilation that was cancelled while it ran stops, or fails before the
\* cancellation reaches it
StopEnd(t, late) ==
  /\ buildPc = "building"
  /\ triple[t] = "stopping"
  /\ triple' = [triple EXCEPT ![t] = IF late THEN "failed" ELSE "cancelled"]
  /\ failures' = IF late THEN Append(failures, t) ELSE failures
  /\ buildError' = IF late THEN Surface(buildError, CompilationError(t))
                    ELSE buildError
  /\ UNCHANGED <<buildPc, requested, compiled, assembling, packaged, disk,
                 buildExit, buildRuns, cleans, prevOp, lastOp>>
  /\ UNCHANGED notBuild

\* the packaging step of a family starts, behind the join barrier
PackageStart(f) ==
  /\ buildPc = "building"
  /\ f \in requested
  /\ f \notin assembling \cup packaged
  /\ JoinBarrier(triple, f)
  /\ assembling' = assembling \cup {f}
  /\ UNCHANGED <<buildPc, requested, triple, compiled, failures, buildError,
                 packaged, disk, buildExit, buildRuns, cleans, prevOp, lastOp>>
  /\ UNCHANGED notBuild

\* the packaging step of a family ends: the binary of every triple is copied
\* to the bundle and the manifest is written
PackageEnd(f) ==
  /\ buildPc = "building"
  /\ f \in assembling
  /\ assembling' = assembling \ {f}
  /\ packaged' = packaged \cup {f}
  /\ disk' = [disk EXCEPT !.bundle[f] = {BundleSlice(t) : t \in Triples(f)}]
  /\ UNCHANGED <<buildPc, requested, triple, compiled, failures, buildError,
                 buildExit, buildRuns, cleans, prevOp, lastOp>>
  /\ UNCHANGED notBuild

\* the build ends when nothing of it runs any more: every family was packaged
\* or lost a triple
BuildEnd ==
  /\ buildPc = "building"
  /\ \A t \in AllTriples : triple[t] \in {"idle", "done", "failed", "cancelled"}
  /\ assembling = {}
  /\ \A f \in requested : f \in packaged \/ ~JoinBarrier(triple, f)
  /\ buildPc' = "shell"
  /\ buildExit' = IF buildError = NoError THEN 0 ELSE 1
  /\ prevOp' = lastOp
  /\ lastOp' = IF buildError = NoError THEN "build-ok" ELSE "build-failed"
  /\ UNCHANGED <<requested, triple, compiled, failures, buildError, assembling,
                 packaged, disk, buildRuns, cleans>>
  /\ UNCHANGED notBuild

\* `crabygen clean`
Clean ==
  /\ buildPc = "shell"
  /\ cleans < MaxCleans
  /\ cleans' = cleans + 1
  /\ disk' = Removed(disk, CleanRemoves)
  /\ buildExit' = RemoveExit(disk, CleanRemoves)
  /\ prevOp' = lastOp
  /\ lastOp' = "clean"
  /\ UNCHANGED <<buildPc, requested, triple, compiled, failures, buildError,
                 assembling, packaged, buildRuns>>
  /\ UNCHANGED notBuild

BuildNext ==
  \/ \E fams \in (SUBSET Families) \ {{}} : StartBuild(fams)
  \/ \E t \in AllTriples : CompileStart(t)
  \/ \E t \in AllTriples : CompileDone(t)
  \/ \E t \in AllTriples : CompileFail(t)
  \/ \E t \in AllTriples, late \in BOOLEAN : StopEnd(t, late)
  \/ \E f \in Families : PackageStart(f)
  \/ \E f \in Families : PackageEnd(f)
  \/ BuildEnd
  \/ Clean

(***************************************************************************)
(* The naming converter                                                    *)
(***************************************************************************)
LowerCase == "abcdefghijklmnopqrstuvwxyz"
UpperCase == "ABCDEFGHIJKLMNOPQRSTUVWXYZ"
Digits == "0123456789"

Char(s, i) == SubSeq(s, i, i)

IsIn(c, alphabet) == \E k \in 1..Len(alphabet) : Char(alphabet, k) = c
IsLower(c) == IsIn(c, LowerCase)
IsUpper(c) == IsIn(c, UpperCase)
IsDigit(c) == IsIn(c, Digits)

\* the lower-case form of a character
LowerChar(c) ==
  IF IsUpper(c)
    THEN Char(LowerCase, CHOOSE k \in 1..Len(UpperCase) : Char(UpperCase, k) = c)
    ELSE c

RECURSIVE LowerString(_)
LowerString(s) ==
  IF Len(s) = 0 THEN ""
  ELSE LowerChar(Char(s, 1)) \o LowerString(SubSeq(s, 2, Len(s)))

\* a word ends between the characters c and d: a case boundary or a
\* digit/letter boundary
Boundary(c, d) ==
  \/ IsLower(c) /\ IsUpper(d)
  \/ IsDigit(c) /\ ~IsDigit(d)
  \/ ~IsDigit(c) /\ IsDigit(d)

\* the segments of s[start..Len(s)], the scan standing at character i
RECURSIVE SegmentsFrom(_, _, _)
SegmentsFrom(s, start, i) ==
  IF i >= Len(s) THEN << SubSeq(s, start, Len(s)) >>
  ELSE IF Boundary(Char(s, i), Char(s, i + 1))
    THEN << SubSeq(s, start, i) >> \o SegmentsFrom(s, i + 1, i + 1)
    ELSE SegmentsFrom(s, start, i + 1)

\* the word segmentation of an identifier
Segments(s) == SegmentsFrom(s, 1, 1)

RECURSIVE Join(_, _)
Join(words, sep) ==
  IF Len(words) = 0 THEN ""
  ELSE IF Len(words) = 1 THEN words[1]
  ELSE words[1] \o sep \o Join(Tail(words), sep)

\* a converter that lower-cases the identifier and joins nothing
toSnake_LowerOnly(id) == LowerString(id)

\* toSnake: split, lower-case each segment, join with underscores
toSnake(id) ==
  Join([k \in 1..Len(Segments(id)) |-> LowerString(Segments(id)[k])], "_")

\* s[start..Len(s)] split on the character sep, the scan standing at i
RECURSIVE SplitFrom(_, _, _, _)
SplitFrom(s, sep, start, i) ==
  IF i > Len(s) THEN << SubSeq(s, start, Len(s)) >>
  ELSE IF Char(s, i) = sep
    THEN << SubSeq(s, start, i - 1) >> \o SplitFrom(s, sep, i + 1, i + 1)
    ELSE SplitFrom(s, sep, start, i + 1)

Split(s, sep) == SplitFrom(s, sep, 1, 1)

\* the characters the identifiers tried are made of
IdChars == {"a", "e", "N", "I", "7"}

RECURSIVE StringsUpTo(_, _)
StringsUpTo(chars, n) ==
  IF n = 0 THEN {""}
  ELSE LET shorter == StringsUpTo(chars, n - 1)
       IN shorter \cup {w \o c : w \in shorter, c \in chars}

\* the naming conventions of the guide: TypeScript name, Rust name
NamingConventions ==
  {<<"myMethod", "my_method">>, <<"userName", "user_name">>,
   <<"isActive", "is_active">>, <<"getUserName", "get_user_name">>,
   <<"userId", "user_id">>}

\* the identifiers of the naming conventions
NamedIdentifiers == {pair[1] : pair \in NamingConventions}

\* lower-camel-case identifiers of letters and digits
Identifiers ==
  NamedIdentifiers \cup
    {w \in StringsUpTo(IdChars, MaxIdLen) : Len(w) >= 1 /\ IsLower(Char(w, 1))}

NameInit ==
  /\ identifier \in Identifiers
  /\ snake = NA
  /\ namePc = "given"

\* no identifier is being converted: the state the other models keep
NameQuiet ==
  /\ identifier = "userId"
  /\ snake = NA
  /\ namePc = "given"

\* the generator converts the identifier
Convert ==
  /\ namePc = "given"
  /\ snake' = toSnake(identifier)
  /\ namePc' = "converted"
  /\ UNCHANGED identifier
  /\ UNCHANGED notName

NameNext == Convert

(***************************************************************************)
(* The test-suites application: runAllTests                                *)
(***************************************************************************)
TestLabels == <<"Number", "String", "Promise", "Signal">>

\* TEST_SUITES: the label and the description of each test, in suite order
TEST_SUITES ==
  [i \in 1..NumTests |->
     [label |-> TestLabels[i], description |-> "Test " \o TestLabels[i]]]

\* how the awaited test.action() settles: it resolves with a value, or it
\* throws or rejects with an Error or with another value
Outcomes ==
  {[kind |-> "resolved", type |-> "string", isError |-> FALSE, message |-> NA,
    str |-> "42", num |-> 0],
   [kind |-> "thrown", type |-> "object", isError |-> TRUE,
    message |-> "native call failed", str |-> NA, num |-> 0],
   [kind |-> "thrown", type |-> "object", isError |-> TRUE, message |-> "",
    str |-> NA, num |-> 0],
   [kind |-> "thrown", type |-> "string", isError |-> FALSE, message |-> NA,
    str |-> "a thrown string", num |-> 0],
   [kind |-> "thrown", type |-> "number", isError |-> FALSE, message |-> NA,
    str |-> NA, num |-> 404]}

\* String(value) of a string or a number
String(value) == IF value.type = "number" THEN ToString(value.num) ELSE value.str

\* error instanceof Error ? error.message : String(error)
ErrorText(error) == IF error.isError THEN error.message ELSE String(error)

\* the property `error` of an entry that has none
NoProperty == "<no property>"

\* an entry that keeps the label and the result only
Entry_ResultOnly(test, outcome) ==
  [label |-> test.label, description |-> test.description,
   result |-> IF outcome.kind = "resolved" THEN outcome.str ELSE NULL,
   error |-> NoProperty]

\* the object runAllTests pushes to `results` for a test
Entry(test, outcome) ==
  IF outcome.kind = "resolved"
    THEN [label |-> test.label, description |-> test.description,
          result |-> outcome.str, error |-> NoProperty]
    ELSE [label |-> test.label, description |-> test.description,
          result |-> NULL, error |-> ErrorText(outcome)]

\* !error of JavaScript: true for a missing property and for the empty string
Not(error) == error = NoProperty \/ error = ""

\* ResultCard: const isSuccess = !error
isSuccess(error) == Not(error)

\* ResultCard: the status text of a card
StatusText(error) == IF isSuccess(error) THEN "Passed" ELSE "Error"

\* App: testResults.filter((testResult) => !testResult.error).length
PassedCount(list) ==
  Cardinality({k \in 1..Len(list) : Not(list[k].error)})

\* a run button that is never disabled
ButtonDisabled_Never(running) == FALSE

\* the run button as App renders it: disabled={isRunning}
ButtonDisabled(running) == running

TestInit ==
  /\ isRunning = FALSE
  /\ testResults = <<>>
  /\ results = <<>>
  /\ testPc = 0
  /\ executed = <<>>
  /\ published = 0
  /\ testRuns = 0
  /\ disabled = ButtonDisabled(FALSE)
  /\ inProgress = 0

\* the user taps "Run All Tests"; a disabled TouchableOpacity does not call
\* onPress. runAllTests runs up to its first await with fresh locals, then
\* React renders the state the handler set, before the next event
PressRunAllTests ==
  /\ ~disabled
  /\ testRuns < MaxTestRuns
  /\ testRuns' = testRuns + 1
  /\ results' = <<>>
  /\ executed' = <<>>
  /\ IF Len(TEST_SUITES) = 0
       THEN /\ testResults' = <<>>
            /\ isRunning' = FALSE
            /\ published' = 1
            /\ testPc' = 0
            /\ inProgress' = inProgress
       ELSE /\ testResults' = <<>>
            /\ isRunning' = TRUE
            /\ published' = 0
            /\ testPc' = 1
            /\ inProgress' = inProgress + 1
  /\ disabled' = ButtonDisabled(isRunning')
  /\ UNCHANGED notTest

\* the awaited action of a test that is not the last one settles: its entry
\* is pushed and the action of the next test is called
SettleNext(outcome) ==
  /\ testPc \in 1..(Len(TEST_SUITES) - 1)
  /\ results' = Append(results, Entry(TEST_SUITES[testPc], outcome))
  /\ executed' = Append(executed, [test |-> testPc, outcome |-> outcome])
  /\ testPc' = testPc + 1
  /\ UNCHANGED <<isRunning, testResults, published, testRuns, disabled,
                 inProgress>>
  /\ UNCHANGED notTest

\* the awaited action of the last test settles: its entry is pushed, the
\* loop ends, setTestResults(results) and setIsRunning(false) are called
SettleLast(outcome) ==
  /\ testPc >= 1
  /\ testPc = Len(TEST_SUITES)
  /\ results' = Append(results, Entry(TEST_SUITES[testPc], outcome))
  /\ executed' = Append(executed, [test |-> testPc, outcome |-> outcome])
  /\ testResults' = results'
  /\ published' = published + 1
  /\ isRunning' = FALSE
  /\ testPc' = 0
  /\ inProgress' = inProgress - 1
  /\ disabled' = ButtonDisabled(isRunning')
  /\ UNCHANGED testRuns
  /\ UNCHANGED notTest

TestNext ==
  \/ PressRunAllTests
  \/ \E outcome \in Outcomes : SettleNext(outcome)
  \/ \E outcome \in Outcomes : SettleLast(outcome)

(***************************************************************************)
(* getConfig and getWorkspaceRoot of the basic-module example              *)
(***************************************************************************)

\* the directories getConfig is called with and their ancestors, absolute
\* and relative
WorkspaceDirs == {"/", "/repo", "/repo/app", ".", "repo", "repo/app"}

\* the package.json of a directory, as path.join normalizes it
ManifestPath(dir) ==
  IF dir = "/" THEN "/package.json"
  ELSE IF dir = "." THEN "package.json"
  ELSE PathJoin(dir, "package.json")

ManifestPaths == {ManifestPath(dir) : dir \in WorkspaceDirs}

\* what a package.json can hold: no file, an object with an array-valued
\* workspaces field, an object without one, text that is not JSON
Manifests == {ABSENT, "workspaces-array", "no-workspaces", "malformed"}

\* fs.existsSync(packageJsonPath)
existsSync(fs, packageJsonPath) ==
  packageJsonPath \in DOMAIN fs /\ fs[packageJsonPath] # ABSENT

\* JSON.parse(rawPackageJson) throws
ParseThrows(rawPackageJson) == rawPackageJson = "malformed"

\* Array.isArray(packageJson.workspaces)
isWorkspaceRoot(rawPackageJson) == rawPackageJson = "workspaces-array"

WsInit ==
  /\ packageJsons \in [ManifestPaths -> Manifests]
  /\ configRoot = NA
  /\ rootDir = NA
  /\ wsPc = "idle"
  /\ watchFolders = NA

WsQuiet ==
  /\ packageJsons = [path \in ManifestPaths |-> ABSENT]
  /\ configRoot = NA
  /\ rootDir = NA
  /\ wsPc = "idle"
  /\ watchFolders = NA

\* getConfig(dir) is called and calls getWorkspaceRoot(dir)
GetConfig(dir) ==
  /\ wsPc = "idle"
  /\ configRoot' = dir
  /\ rootDir' = dir
  /\ wsPc' = "loop"
  /\ UNCHANGED <<packageJsons, watchFolders>>
  /\ UNCHANGED notWs

\* one pass through the body of the while loop
WalkUp ==
  /\ wsPc = "loop"
  /\ Dirname(rootDir) # rootDir
  /\ LET packageJsonPath == PathJoin(rootDir, "package.json")
     IN IF existsSync(packageJsons, packageJsonPath)
          THEN IF ParseThrows(packageJsons[packageJsonPath])
                 THEN /\ wsPc' = "threw"
                      /\ UNCHANGED <<rootDir, watchFolders>>
               ELSE IF isWorkspaceRoot(packageJsons[packageJsonPath])
                 THEN /\ wsPc' = "returned"
                      /\ watchFolders' = <<rootDir>>
                      /\ UNCHANGED rootDir
               ELSE /\ rootDir' = Dirname(rootDir)
                    /\ UNCHANGED <<wsPc, watchFolders>>
          ELSE /\ rootDir' = Dirname(rootDir)
               /\ UNCHANGED <<wsPc, watchFolders>>
  /\ UNCHANGED <<packageJsons, configRoot>>
  /\ UNCHANGED notWs

\* the loop condition fails: return null
LoopEnd ==
  /\ wsPc = "loop"
  /\ Dirname(rootDir) = rootDir
  /\ wsPc' = "returned"
  /\ watchFolders' = <<NULL>>
  /\ UNCHANGED <<packageJsons, configRoot, rootDir>>
  /\ UNCHANGED notWs

WsNext ==
  \/ \E dir \in WorkspaceDirs : GetConfig(dir)
  \/ WalkUp
  \/ LoopEnd

\* a process started with any short command line, up to cli.parse
ArgvInit ==
  /\ WsQuiet
  /\ BootQuiet
  /\ ResInit
  /\ BuildInit
  /\ NameQuiet
  /\ TestInit
  /\ argv \in {<<"node", "crabygen">> \o args : args \in SeqsUpTo(ArgWords, MaxArgs)}
  /\ parserArgv = <<>>
  /\ overwrite = {}
  /\ thrown = NoThrow
  /\ errors = <<>>
  /\ exitCode = NoExit
  /\ cliPc = "run"
  /\ moduleSpec = "spec-1"
  /\ files = [path \in OutputPaths |-> ABSENT]
  /\ filesBefore = files
  /\ runs = 1
  /\ gens = <<>>

Init ==
  BootInit /\ ResInit /\ CliInit /\ BuildInit /\ NameInit /\ TestInit /\ WsInit

Next ==
  BootNext \/ ResNext \/ CliNext \/ BuildNext \/ NameNext \/ TestNext \/ WsNext

\* the whole program
Spec == Init /\ [][Next]_vars

\* the bootstrap handshake alone
BootOnlyInit ==
  BootInit /\ ResInit /\ CliQuiet /\ BuildInit /\ NameQuiet /\ TestInit /\ WsQuiet

BootSpec == BootOnlyInit /\ [][BootNext]_vars

\* the resolver cache alone
ResOnlyInit ==
  BootQuiet /\ ResInit /\ CliQuiet /\ BuildInit /\ NameQuiet /\ TestInit /\ WsQuiet

ResSpec == ResOnlyInit /\ [][ResNext]_vars

\* the command line alone
CliOnlyInit ==
  BootQuiet /\ ResInit /\ CliInit /\ BuildInit /\ NameQuiet /\ TestInit /\ WsQuiet

CliSpec == CliOnlyInit /\ [][CliNext]_vars

\* the build orchestrator alone
BuildOnlyInit ==
  BootQuiet /\ ResInit /\ CliQuiet /\ BuildInit /\ NameQuiet /\ TestInit /\ WsQuiet

BuildSpec == BuildOnlyInit /\ [][BuildNext]_vars

\* getModule alone, called with any name on an Android host
HookOnlyInit == BootOnlyInit /\ OS = "android"

HookSpec == HookOnlyInit /\ [][HookNext]_vars

\* the naming converter alone, on every short identifier
NameOnlyInit ==
  BootQuiet /\ ResInit /\ CliQuiet /\ BuildInit /\ NameInit /\ TestInit /\ WsQuiet

NameSpec == NameOnlyInit /\ [][NameNext]_vars

\* runAllTests alone
TestOnlyInit ==
  BootQuiet /\ ResInit /\ CliQuiet /\ BuildInit /\ NameQuiet /\ TestInit /\ WsQuiet

\* every awaited test action settles
TestFairness ==
  /\ WF_vars(\E outcome \in Outcomes : SettleNext(outcome))
  /\ WF_vars(\E outcome \in Outcomes : SettleLast(outcome))

TestSpec == TestOnlyInit /\ [][TestNext]_vars /\ TestFairness

\* getConfig alone, on every file system over the directories
WsOnlyInit ==
  BootQuiet /\ ResInit /\ CliQuiet /\ BuildInit /\ NameQuiet /\ TestInit /\ WsInit

WsSpec == WsOnlyInit /\ [][WsNext]_vars

\* run() alone, on every short command line
ArgvNext == CliRun

ArgvSpec == ArgvInit /\ [][ArgvNext]_vars


(***************************************************************************)
(* Claims about the bootstrap handshake                                    *)
(***************************************************************************)
IsEv(l, i, ev) == i \in 1..Len(l) /\ l[i].ev = ev

\* the event at index i is the issue of the real lookup of its call
IsRealIssue(l, i) == IsEv(l, i, "issue") /\ l[i].name = l[CallOf(l, i)].name

\* C1: on Android every real lookup issued by NativeModuleRegistry.get(M) or
\* getEnforcing(M) comes after the synthetic lookup of
\* '__craby' + M + '_JNI_prepare__' was issued and has returned, inside the
\* same call; the synthetic lookup is the first thing the call issues.
C1_SyntheticLookupFirst ==
  OS = "android" =>
    \A i \in 1..Len(log) :
      /\ (IsEv(log, i, "call") /\ i < Len(log)) =>
            /\ log[i+1].ev = "issue"
            /\ log[i+1].api = "get"
            /\ log[i+1].name = "__craby" \o log[i].name \o "_JNI_prepare__"
      /\ IsRealIssue(log, i) =>
            /\ log[i].api = log[CallOf(log, i)].api
            /\ \E j \in (CallOf(log, i)+1)..(i-1) :
                 /\ log[j].ev = "return"
                 /\ log[j].name = "__craby" \o log[i].name \o "_JNI_prepare__"
                 /\ \E k \in (CallOf(log, i)+1)..(j-1) :
                      log[k].ev = "issue" /\ log[k].name = log[j].name

\* a call on Android has run to its end
C1_Witness ==
  /\ OS = "android"
  /\ \E i \in 1..Len(log) : IsRealIssue(log, i)
  /\ IsEv(log, Len(log), "result")

\* C2: a getModule call of the package for a name it registered forwards
\* reactContext.filesDir.absolutePath through nativeSetDataPath and returns
\* null, so the lookup of that synthetic name returns no module.
C2_HookForwardsPathReturnsNull ==
  \A i \in 1..Len(log) :
    (IsEv(log, i, "getModule") /\ log[i].name \in ReactModuleInfos(pkg)) =>
      /\ log[i].path = filesDir
      /\ log[i].val = NULL
      /\ i < Len(log)
      /\ log[i+1].ev = "return"
      /\ log[i+1].name = log[i].name
      /\ log[i+1].val = NULL
      /\ log[i+1].path = filesDir

\* the hook of the CrabyTest package has run for a synthetic name
C2_Witness ==
  /\ pkg = "CrabyTestPackage"
  /\ \E i \in 1..Len(log) :
       IsEv(log, i, "getModule") /\ log[i].name = "__crabyCalculator_JNI_prepare__"

\* C3: with the CrabyTest package on Android, whenever a real lookup of
\* Calculator or CrabyTest issued through NativeModuleRegistry reaches the
\* host, the data path is already set; the synthetic names the JS registry
\* derives for them are names the package registers.
C3_DataPathSetBeforeRealLookup ==
  (OS = "android" /\ pkg = "CrabyTestPackage") =>
    /\ \A M \in {"Calculator", "CrabyTest"} :
         JNIPrepareName(M) \in ReactModuleInfos("CrabyTestPackage")
    /\ \A i \in 1..Len(log) :
         (IsRealIssue(log, i) /\ log[i].name \in {"Calculator", "CrabyTest"}) =>
            /\ log[i].path = filesDir
            /\ dataPath = filesDir

\* the first call after a process restart has issued its real lookup
C3_Witness ==
  /\ OS = "android" /\ pkg = "CrabyTestPackage"
  /\ restarts = 1
  /\ CallsIn(log) = 1
  /\ \E i \in 1..Len(log) : IsRealIssue(log, i) /\ log[i].name = "CrabyTest"

\* index of the first successful resolution of module M in l, 0 if none
FirstResolution(l, M) ==
  LET S == {i \in 1..Len(l) : l[i].ev = "return" /\ l[i].name = M
                                 /\ l[i].val \notin {NULL, THROW}}
  IN IF S = {} THEN 0 ELSE CHOOSE i \in S : \A j \in S : i <= j

\* bootstrap resolutions of M (lookups of its synthetic name that reached the
\* package hook) among the first n events of l
BootstrapsBefore(l, M, n) ==
  Cardinality({i \in 1..n : l[i].ev = "getModule"
                              /\ l[i].name = "__craby" \o M \o "_JNI_prepare__"
                              /\ l[i].path # UNSET})

\* C4: on the platform family that has the bootstrap (Android), whatever the
\* order of the registry calls, the first successful resolution of a module
\* in a process lifetime is preceded by exactly one bootstrap resolution of
\* that module.
C4_ExactlyOneBootstrapBeforeFirstResolution ==
  OS = "android" =>
    \A M \in Modules :
      FirstResolution(log, M) # 0 =>
        BootstrapsBefore(log, M, FirstResolution(log, M)) = 1

\* a module was resolved after another module had been resolved first
C4_Witness ==
  /\ OS = "android"
  /\ FirstResolution(log, "Calculator") # 0
  /\ FirstResolution(log, "CrabyTest") > FirstResolution(log, "Calculator")
  /\ CallsIn(log) = 3

\* C5: off Android a call of get(M) or getEnforcing(M) issues no synthetic
\* lookup: it makes exactly one registry lookup, the one of M with the API
\* of the call, and returns what that lookup returned; the data path stays
\* untouched.
C5_NoBootstrapOffAndroid ==
  OS # "android" =>
    /\ dataPath = UNSET
    /\ \A i \in 1..Len(log) :
         /\ log[i].ev # "getModule"
         /\ log[i].ev = "issue" => log[i].name \in Modules
         /\ log[i].ev = "call" =>
              /\ i + 1 <= Len(log) =>
                   /\ log[i+1].ev = "issue"
                   /\ log[i+1].name = log[i].name
                   /\ log[i+1].api = log[i].api
              /\ i + 2 <= Len(log) =>
                   log[i+2].ev = "return" /\ log[i+2].name = log[i].name
              /\ i + 3 <= Len(log) =>
                   log[i+3].ev = "result" /\ log[i+3].val = log[i+2].val
              /\ i + 4 <= Len(log) => log[i+4].ev = "call"

\* a getEnforcing call on iOS has returned a module
C5_Witness ==
  /\ OS = "ios"
  /\ \E i \in 1..Len(log) : IsEv(log, i, "call") /\ log[i].api = "getEnforcing"
  /\ IsEv(log, Len(log), "result")
  /\ log[Len(log)].val = "module:Calculator"


(***************************************************************************)
(* Claims about the resolver cache                                         *)
(***************************************************************************)
\* C6: the cache is keyed by (platform, resolver function): the pipeline
\* that serves a call made through one createResolver result was built on
\* behalf of that same result, never of another one.
C6_PipelineOfOwnResolver ==
  lastResolve.fn # 0 => lastResolve.servedBy.owner = lastResolve.fn

\* C7: the cache fills lazily and is never invalidated: a key nobody asked
\* for has no pipeline and no build; createResolverImpl runs at most once
\* per key; a call is served by the entry of its key; a stored entry is
\* never replaced or removed.
C7_CacheLazyNeverInvalidated ==
  /\ [](/\ \A k \in PlatformKeys :
             /\ asked[k] = 0 => (resolvers[k] = NoResolver /\ builds[k] = 0)
             /\ asked[k] > 0 => resolvers[k] # NoResolver
             /\ builds[k] <= 1
        /\ lastResolve.fn # 0 =>
             lastResolve.servedBy = resolvers[lastResolve.platform])
  /\ [][\A k \in PlatformKeys :
           resolvers[k] # NoResolver => resolvers'[k] = resolvers[k]]_vars

\* a key was asked for twice, the second time with another context
C7_Witness ==
  /\ asked["ios"] = 2
  /\ builds["ios"] = 1
  /\ lastResolve.platform = "ios"
  /\ lastResolve.servedBy.origin # lastResolve.context.originModulePath

\* C19: what a resolve call resolves against is decided by its arguments and
\* the options of the createResolver call that returned the function: the
\* base directory and the extension list are those of a pipeline built from
\* these options for this context and platform, whatever was called before.
C19_ResultOfArgumentsAndOptions ==
  lastResolve.fn # 0 =>
    LET own == createResolverImpl(lastResolve.fn, created[lastResolve.fn],
                                  lastResolve.context, lastResolve.platform,
                                  created[lastResolve.fn].rootPath)
    IN /\ lastResolve.result.resolveDir =
            ResolveDir(own, lastResolve.context, lastResolve.request)
       /\ lastResolve.result.extensions = own.extensions

(***************************************************************************)
(* Claims about the command line                                           *)
(***************************************************************************)
\* C8: when the action wrapped by withErrorHandler fails, exactly one message
\* is emitted (the Error's message, 'Unknown error' for any other reason)
\* and the process exits with code 1; when it does not fail, no message is
\* emitted and no exit is forced.
C8_FailureReportedOnceExitOne ==
  (overwrite # {} /\ cliPc \in {"returned", "exited"}) =>
    IF thrown # NoThrow
      THEN /\ errors = << IF thrown.isError THEN thrown.message ELSE "Unknown error" >>
           /\ exitCode = 1
           /\ cliPc = "exited"
      ELSE /\ errors = <<>>
           /\ exitCode = NoExit
           /\ cliPc = "returned"

\* the codegen action threw a value that is no Error
C8_Witness ==
  /\ cliPc = "exited"
  /\ overwrite # {}
  /\ thrown # NoThrow
  /\ ~thrown.isError
  /\ errors = <<"Unknown error">>

\* C9: when the arguments after the executable are empty or all start with
\* '-', the parser gets the original vector with 'codegen' put in before
\* them, which is the vector the explicit codegen subcommand gives; when one
\* argument does not start with '-', the parser gets the vector unchanged.
C9_DefaultsToCodegen ==
  cliPc = "parse" =>
    IF \A i \in 3..Len(argv) : Len(argv[i]) > 0 /\ SubSeq(argv[i], 1, 1) = "-"
      THEN /\ Len(parserArgv) = Len(argv) + 1
           /\ parserArgv[1] = argv[1]
           /\ parserArgv[2] = argv[2]
           /\ parserArgv[3] = "codegen"
           /\ \A i \in 3..Len(argv) : parserArgv[i+1] = argv[i]
           /\ ParserArgv(parserArgv) = parserArgv
      ELSE parserArgv = argv

\* two options and no subcommand were given
C9_Witness ==
  /\ cliPc = "parse"
  /\ argv = <<"node", "crabygen", "-v", "--no-overwrite">>
  /\ parserArgv = <<"node", "crabygen", "codegen", "-v", "--no-overwrite">>

\* C10: without --no-overwrite the pipeline runs with overwrite = true and
\* every output file holds the generated text afterwards; with the flag it
\* runs with overwrite = false and every file that existed before the run
\* has the content it had.
C10_WritePolicies ==
  cliPc = "returned" =>
    IF \E i \in 3..Len(argv) : argv[i] = "--no-overwrite"
      THEN /\ overwrite = {FALSE}
           /\ \A path \in OutputPaths :
                filesBefore[path] # ABSENT => files[path] = filesBefore[path]
      ELSE /\ overwrite = {TRUE}
           /\ \A path \in OutputPaths : files[path] = Generated(moduleSpec, path)

\* a run with the flag kept an edited file and wrote a missing one
C10_Witness ==
  /\ cliPc = "returned"
  /\ overwrite = {FALSE}
  /\ \E path \in OutputPaths :
       filesBefore[path] = EDITED /\ files[path] = EDITED
  /\ \E path \in OutputPaths :
       filesBefore[path] = ABSENT /\ files[path] = Generated(moduleSpec, path)

C12_FailedRunWritesNothing ==
  (cliPc \in {"returned", "exited"} /\ thrown # NoThrow) =>
    /\ cliPc = "exited"
    /\ exitCode = 1
    /\ files = filesBefore

\* a run failed with a specification error on a project that has an edited
\* file and a missing one
C12_Witness ==
  /\ cliPc = "exited"
  /\ thrown.message = "SpecError: no module handle"
  /\ \E path \in OutputPaths : files[path] = EDITED
  /\ \E path \in OutputPaths : files[path] = ABSENT

(***************************************************************************)
(* Claims about the build orchestrator                                     *)
(***************************************************************************)
\* the triples whose binaries the bundle of a family is laid out for
LayoutTriples(f) == {TripleOfSlice(slice) : slice \in BundleLayout(f)}

\* a triple of the family failed to compile in the running or latest build
FamilyFailed(f) ==
  \E i \in 1..Len(failures) : failures[i] \in LayoutTriples(f)

\* C13: the bundle of a family is absent or complete (the two slices of iOS,
\* the four of Android); a build in which a triple of a family failed to
\* compile neither assembles nor produces a bundle for that family, and the
\* error it reports is a CompilationError naming a triple that failed (the
\* failing triple when only one failed); a family's bundle is assembled or
\* produced by a build only when every triple of the family compiled.
C13_BuildAtomicity ==
  \A f \in Families :
    /\ disk.bundle[f] \in {{}, BundleLayout(f)}
    /\ FamilyFailed(f) =>
         /\ f \notin assembling \cup packaged
         /\ buildError.kind = "CompilationError"
         /\ \E i \in 1..Len(failures) : buildError.triple = failures[i]
         /\ Len(failures) = 1 => buildError.triple = failures[1]
    /\ f \in assembling \cup packaged =>
         \A t \in LayoutTriples(f) : triple[t] = "done"

\* a build of both families has ended: one Android triple failed, the iOS
\* bundle was produced, there is no Android bundle
C13_Witness ==
  /\ lastOp = "build-failed"
  /\ buildPc = "shell"
  /\ failures = <<"i686-linux-android">>
  /\ buildError = CompilationError("i686-linux-android")
  /\ disk.bundle["ios"] = BundleLayout("ios")
  /\ disk.bundle["android"] = {}
  /\ \E t \in LayoutTriples("android") : triple[t] = "done"

\* C14: while the bundle of a family is being assembled, every triple of
\* that family has finished compiling: none is queued, compiling, being
\* stopped or never started.
C14_JoinBarrier ==
  \A f \in assembling :
    \A t \in LayoutTriples(f) :
      /\ triple[t] \notin {"idle", "queued", "compiling", "stopping"}
      /\ triple[t] = "done"

\* the iOS bundle is being assembled while an Android triple compiles and
\* another one has not started
C14_Witness ==
  /\ "ios" \in assembling
  /\ \E t \in LayoutTriples("android") : triple[t] = "compiling"
  /\ \E t \in LayoutTriples("android") : triple[t] = "queued"

\* C15: once a compilation of a build has failed, no triple of the build is
\* queued or compiling any more (the remaining ones are cancelled), the error
\* the build surfaces is the CompilationError of the first triple that
\* failed, and no triple is compiled more than once in a build.
C15_CancelFirstFailureNoRetry ==
  /\ failures # <<>> =>
       /\ \A t \in AllTriples : triple[t] \notin {"queued", "compiling"}
       /\ buildError = CompilationError(failures[1])
  /\ \A t \in AllTriples : compiled[t] <= 1
  /\ \A i, j \in 1..Len(failures) : i # j => failures[i] # failures[j]

\* a build has ended in which a second compilation failed after the first
\* failure and a queued triple was cancelled
C15_Witness ==
  /\ buildPc = "shell"
  /\ Len(failures) = 2
  /\ buildError = CompilationError(failures[1])
  /\ \E t \in AllTriples : triple[t] = "cancelled" /\ compiled[t] = 0

\* C16: every clean ends with exit code 0 and leaves neither the directory
\* of intermediates nor a bundle, whatever was on disk; a clean that follows
\* a clean leaves the disk as it found it.
C16_CleanIdempotent ==
  [][cleans' = cleans + 1 =>
       /\ buildExit' = 0
       /\ disk' = NoDisk
       /\ lastOp = "clean" => disk' = disk]_vars

\* clean has run twice in a row after a build that failed and left
\* intermediates
C16_Witness ==
  /\ cleans = 2
  /\ lastOp = "clean" /\ prevOp = "clean"
  /\ buildRuns = 1 /\ failures # <<>>
  /\ buildExit = 0
  /\ disk = NoDisk

(***************************************************************************)
(* Claims about the naming converter                                       *)
(***************************************************************************)
\* C17: for every lower-camel-case identifier of letters and digits, the
\* result of toSnake is made of lower-case letters, digits and underscores,
\* and splitting it on underscores gives the identifier's segments (split on
\* case boundaries and digit/letter boundaries), compared without regard to
\* case; getUserName gives get_user_name, userId gives user_id and isActive
\* gives is_active.
C17_NamingRoundTrip ==
  namePc = "converted" =>
    LET words == Segments(identifier)
        back == Split(snake, "_")
    IN /\ \A i \in 1..Len(snake) :
            LET c == Char(snake, i) IN IsLower(c) \/ IsDigit(c) \/ c = "_"
       /\ Len(back) = Len(words)
       /\ \A k \in 1..Len(words) :
            /\ Len(words[k]) >= 1
            /\ LowerString(back[k]) = LowerString(words[k])
       /\ \A pair \in NamingConventions : identifier = pair[1] => snake = pair[2]
       /\ <<"getUserName", "get_user_name">> \in NamingConventions
       /\ <<"userId", "user_id">> \in NamingConventions
       /\ <<"isActive", "is_active">> \in NamingConventions

\* an identifier with a case boundary and two digit/letter boundaries was
\* converted
C17_Witness ==
  /\ namePc = "converted"
  /\ identifier = "a7eN"
  /\ snake = "a_7_e_n"

(***************************************************************************)
(* Claims about getModule called with any name                             *)
(***************************************************************************)
\* the name is one the package registered with getReactModuleInfoProvider
Registered(name) == name \in ReactModuleInfos(pkg)

\* the statement of C18 as it was made: in both packages every getModule call
\* returns null, and a call for a name that is not registered leaves the data
\* path as it was
C18_ForwardsOnlyForRegisteredNames ==
  \A i \in 2..Len(log) :
    log[i].ev = "getModule" =>
      /\ log[i].val = NULL
      /\ ~Registered(log[i].name) => log[i].path = log[i-1].path

\* C18: in both packages every getModule call returns null; CrabyTestPackage
\* forwards reactContext.filesDir.absolutePath to the binding layer when the
\* name is one of its registered synthetic names and leaves the data path
\* unchanged for any other name; the template package forwards it on every
\* call, whatever the name.
C18_ForwardingPerPackage ==
  \A i \in 2..Len(log) :
    log[i].ev = "getModule" =>
      /\ log[i].val = NULL
      /\ pkg = "CrabyTestPackage" =>
           log[i].path = IF Registered(log[i].name) THEN filesDir
                         ELSE log[i-1].path
      /\ pkg = "TemplatePackage" => log[i].path = filesDir

\* CrabyTestPackage was asked for a module that is not a synthetic name and
\* left the data path unset, then for a synthetic name and set it
C18_Witness ==
  /\ pkg = "CrabyTestPackage"
  /\ Len(log) = 4
  /\ log[2].ev = "getModule" /\ log[2].name = "Calculator" /\ log[2].path = UNSET
  /\ log[4].ev = "getModule" /\ Registered(log[4].name) /\ log[4].path = filesDir

(***************************************************************************)
(* Claims about runAllTests                                                *)
(***************************************************************************)
\* the entry of the k-th test tells how its action settled: the value it
\* resolved with, or null and the message of the Error or the text of the
\* value it threw
EntryTells(entry, k) ==
  LET outcome == executed[k].outcome
  IN /\ entry.label = TEST_SUITES[k].label
     /\ entry.description = TEST_SUITES[k].description
     /\ executed[k].test = k
     /\ IF outcome.kind = "resolved"
          THEN entry.result = outcome.str /\ entry.error = NoProperty
          ELSE /\ entry.result = NULL
               /\ entry.error # NoProperty
               /\ outcome.isError => entry.error = outcome.message
               /\ outcome.type = "string" => entry.error = outcome.str
               /\ outcome.type = "number" => entry.error = "404"

\* C20: given that every awaited test action settles, every run of
\* runAllTests ends; when a run has ended isRunning is false and testResults
\* holds one entry per element of TEST_SUITES, in suite order, a test whose
\* action threw or rejected having an entry with the error text; while a run
\* is under way the actions called so far are a prefix of the suite, one
\* being awaited at a time, and nothing but the empty list is published; the
\* results are published once per run, after the last test.
C20_RunAllTestsCompletes ==
  /\ [](/\ (testPc = 0 /\ testRuns >= 1) =>
             /\ ~isRunning
             /\ published = 1
             /\ Len(testResults) = Len(TEST_SUITES)
             /\ Len(executed) = Len(TEST_SUITES)
             /\ \A k \in 1..Len(TEST_SUITES) : EntryTells(testResults[k], k)
        /\ testPc # 0 =>
             /\ isRunning
             /\ published = 0
             /\ testResults = <<>>
             /\ testPc \in 1..Len(TEST_SUITES)
             /\ Len(executed) = testPc - 1
             /\ Len(results) = testPc - 1
             /\ \A k \in 1..Len(executed) : EntryTells(results[k], k))
  /\ (isRunning ~> ~isRunning)

\* a run has ended in which the first test threw and the last one passed
C20_Witness ==
  /\ testPc = 0
  /\ testRuns >= 1
  /\ ~isRunning
  /\ Len(testResults) = Len(TEST_SUITES)
  /\ testResults[1].error = "native call failed"
  /\ testResults[Len(testResults)].error = NoProperty
  /\ testResults[Len(testResults)].result = "42"

\* C21: after a run, the passed count App shows is the number of tests whose
\* action neither threw nor rejected, and the card of a test shows "Passed"
\* exactly when its action neither threw nor rejected.
C21_PassedIffNotThrown ==
  (testPc = 0 /\ testRuns >= 1) =>
    /\ PassedCount(testResults) =
         Cardinality({k \in 1..Len(executed) :
                        executed[k].outcome.kind = "resolved"})
    /\ \A k \in 1..Len(testResults) :
         StatusText(testResults[k].error) = "Passed"
           <=> executed[k].outcome.kind = "resolved"

\* C22: at most one runAllTests call is in progress; while one is, the run
\* button is rendered disabled; a call starts only when none is in progress;
\* and while a call is in progress its results only grow and nothing is
\* published over them.
C22_OneRunAtATime ==
  /\ [](/\ inProgress \in {0, 1}
        /\ inProgress = 1 <=> testPc # 0
        /\ inProgress = 1 => (disabled /\ isRunning))
  /\ [][/\ testRuns' = testRuns + 1 => (inProgress = 0 /\ testPc = 0)
        /\ (testPc # 0 /\ testPc' # 0) =>
             /\ Len(results') = Len(results) + 1
             /\ SubSeq(results', 1, Len(results)) = results
             /\ testResults' = testResults]_vars

\* a second run was started after the first one had finished, and is under
\* way with the button disabled
C22_Witness ==
  /\ testRuns = 2
  /\ inProgress = 1
  /\ testPc = 2
  /\ disabled
  /\ Len(results) = 1

\* rootDir and its ancestors, nearest first, up to and including the
\* directory that is its own parent
RECURSIVE Ancestry(_)
Ancestry(dir) ==
  IF Dirname(dir) = dir THEN <<dir>> ELSE <<dir>> \o Ancestry(Dirname(dir))

\* the package.json of the directory exists and has an array-valued
\* workspaces field
HasWorkspaces(dir) == packageJsons[ManifestPath(dir)] = "workspaces-array"

\* the nearest directory of the ancestry that has workspaces, null if none
NearestWorkspaceRoot(dir) ==
  LET chain == Ancestry(dir)
      hits == {k \in 1..Len(chain) : HasWorkspaces(chain[k])}
  IN IF hits = {} THEN NULL
     ELSE chain[CHOOSE k \in hits : \A j \in hits : k <= j]

\* C23: a call of getWorkspaceRoot(rootDir) ends by returning, never by
\* throwing, and what it returns is the nearest directory among rootDir and
\* all of its ancestors whose package.json exists and has an array-valued
\* workspaces field, null exactly when there is none.
C23_NearestWorkspaceRoot ==
  /\ wsPc # "threw"
  /\ wsPc = "returned" => watchFolders = <<NearestWorkspaceRoot(configRoot)>>

=============================================================================
